---- MODULE Spec2Model ----
(***************************************************************************)
(* Turn orchestration of the voice server (server/main.go).                *)
(*                                                                         *)
(* One client connection = one session loop (handleWebSocket).  The loop   *)
(* reads inbound frames, forwards audio to the current Deepgram (STT)      *)
(* connection, and on a text frame finalizes the Turn, starts the LLM call *)
(* and re-creates the Turn's channels.                                     *)
(*                                                                         *)
(* The goroutines of packages api and utils (STT listener, transcript      *)
(* aggregator, relays, LLM call, websocket writer) are not part of         *)
(* server/main.go; they are modelled from the design document (sections   *)
(* 4.1-4.3, 5 and 6).                                                      *)
(*                                                                         *)
(* Channels are identified by their generation: the channels made at       *)
(* connection accept have generation 1, the ones made by the k-th rewiring *)
(* have generation k+1.  A Turn is identified by the generation of its     *)
(* channels.                                                               *)
(***************************************************************************)
EXTENDS Integers, Sequences, FiniteSets, TLC

\* ---------------------------------------------------------------- bounds
MaxFrames == 3     \* inbound frames read by the session loop

\* ------------------------------------------------------------- constants
NoConn == 0        \* the connection value returned with a non-nil error

Ids == 1..(MaxFrames + 1)      \* Turn / channel generations, STT stream ids

ConvIds == {"", "c1"}
\* message.Text of a direct text frame: one token standing for the typed text
Texts == {<<0>>}

VARIABLES
  \* ---- session loop (handleWebSocket)
  pc,               \* "read" | "stop" | "recv" | "closed" | "fatal" | "panic" (handler unwound)
  message,          \* the Message being handled at "stop"/"recv"
  nframes,          \* frames read so far
  turn,             \* generation of the current Turn
  userTranscript, stopChan, userMessage, botTextForClient, botTextForTTS,
  deepgramConn,     \* current STT stream id or NoConn
  connOpen,         \* client transport connection not yet closed
  \* ---- STT streams (api.NewDeepgramConnection)
  nstreams,         \* streams opened so far
  attempts,         \* calls of NewDeepgramConnection so far
  sTranscript,      \* stream -> transcript channel its listener feeds
  sStop,            \* stream -> stop channel its listener watches
  received,         \* stream -> audio chunks written to it
  finalized,        \* stream -> Finalize directive written to it
  emitted,          \* stream -> number of fragments emitted
  forwarded,        \* stream -> number of fragments handed to the aggregator
  mark,             \* stream -> fragments emitted when the stop signal was taken
  lsn,              \* stream -> listener goroutine: "none" | "run" | "stopped"
  \* ---- per-generation tasks (makeTurnChannels)
  agg,              \* transcript aggregator: "none" | "run" | "final" | "done"
  buf,              \* aggregator build buffer (sequence of fragments)
  stopClosed,       \* stop channel closed
  stopSent,         \* stop signals delivered on the stop channel
  llm,              \* LLM call wired to the generation's relays:
                    \* "none" | "run" | "text" | "done"
  llmArgs,          \* arguments of that call
  outbound,         \* packets written to the client, in order:
                    \* <<turn, kind, task that wrote it to the connection>>
  \* ---- history
  sTurn,            \* stream -> Turn current when it was opened
  sBy,              \* stream -> "accept" | "rewire" | "reconnect"
  issued,           \* stream -> fragments emitted when its Turn's stop signal was given
  utterance,        \* Turn -> what the loop received on userMessage, or NoUtterance
  finalCid,         \* Turn -> conversationId of the "audioEnd" that finalized it
  endedBy,          \* Turn -> "" | "audioEnd" | "text": what ended and replaced it
  frame,            \* what happened while handling the last frame
  arrival,          \* transcript channel -> fragments in the order they were
                    \* handed over on it
  waited            \* transcript channel -> a fragment was taken by the
                    \* aggregator after the stop signal

sessVars  == <<pc, message, nframes, turn, userTranscript, stopChan, userMessage,
               botTextForClient, botTextForTTS, deepgramConn, connOpen>>
wireVars  == <<nstreams, attempts, sTranscript, sStop, sTurn, sBy>>
sttVars   == <<received, finalized, emitted, forwarded, mark, lsn>>
aggVars   == <<agg, buf>>
stopVars  == <<stopClosed, stopSent>>
llmVars   == <<llm, llmArgs>>
histVars  == <<issued, utterance, finalCid, endedBy, frame, arrival, waited>>
vars == <<sessVars, wireVars, sttVars, aggVars, stopVars, llmVars, outbound, histVars>>

NoFrame == [kind |-> "none", type |-> "", cid |-> "", text |-> << >>, w1 |-> "",
            openOk |-> FALSE, w2 |-> ""]
NoMessage == [type |-> "", cid |-> "", text |-> << >>]
NoUtterance == <<-1>>
NoArgs == [cid |-> "", text |-> << >>, client |-> 0, tts |-> 0]

\* A fragment is identified by its stream and its index in that stream.
Frag(s, k) == s * 10 + k

\* The server process is running: only log.Fatal/log.Fatalf (lines 79, 137,
\* 141) end it.  A panic of the handler (pc = "panic") is recovered by
\* net/http after the deferred conn.Close() of line 82; the tasks run on.
Alive == pc # "fatal"


\* ------------------------------------------------ api.NewDeepgramConnection
\* Opens an STT stream whose listener feeds transcript channel ut and watches
\* stop channel sc.  ok = FALSE: the open fails and the returned connection is
\* NoConn.  The result is assigned to deepgramConn in either case.
NewDeepgramConnection(ok, ut, sc, t, by) ==
  /\ attempts' = attempts + 1
  /\ IF ok
     THEN /\ nstreams' = nstreams + 1
          /\ deepgramConn' = nstreams + 1
          /\ sTranscript' = [sTranscript EXCEPT ![nstreams + 1] = ut]
          /\ sStop' = [sStop EXCEPT ![nstreams + 1] = sc]
          /\ sTurn' = [sTurn EXCEPT ![nstreams + 1] = t]
          /\ sBy' = [sBy EXCEPT ![nstreams + 1] = by]
          /\ lsn' = [lsn EXCEPT ![nstreams + 1] = "run"]
     ELSE /\ deepgramConn' = NoConn
          /\ UNCHANGED <<nstreams, sTranscript, sStop, sTurn, sBy, lsn>>

\* ------------------------------------------------------------------- Init
\* State after lines 64-83: writer started, first STT stream opened (fatal
\* when that fails), first set of Turn channels and tasks made.
Init ==
  /\ \E ok \in {TRUE, FALSE} :
       /\ pc = IF ok THEN "read" ELSE "fatal"
       /\ deepgramConn = IF ok THEN 1 ELSE NoConn
       /\ nstreams = IF ok THEN 1 ELSE 0
       /\ attempts = 1
       /\ lsn = [s \in Ids |-> IF ok /\ s = 1 THEN "run" ELSE "none"]
       /\ sTranscript = [s \in Ids |-> IF ok /\ s = 1 THEN 1 ELSE 0]
       /\ sStop = [s \in Ids |-> IF ok /\ s = 1 THEN 1 ELSE 0]
       /\ sTurn = [s \in Ids |-> IF ok /\ s = 1 THEN 1 ELSE 0]
       /\ sBy = [s \in Ids |-> IF ok /\ s = 1 THEN "accept" ELSE ""]
       /\ agg = [g \in Ids |-> IF ok /\ g = 1 THEN "run" ELSE "none"]
  /\ message = NoMessage
  /\ nframes = 0
  /\ turn = 1
  /\ userTranscript = 1 /\ stopChan = 1 /\ userMessage = 1
  /\ botTextForClient = 1 /\ botTextForTTS = 1
  /\ connOpen = TRUE
  /\ received = [s \in Ids |-> << >>]
  /\ finalized = [s \in Ids |-> FALSE]
  /\ emitted = [s \in Ids |-> 0]
  /\ forwarded = [s \in Ids |-> 0]
  /\ mark = [s \in Ids |-> 0]
  /\ buf = [g \in Ids |-> << >>]
  /\ stopClosed = [g \in Ids |-> FALSE]
  /\ stopSent = [g \in Ids |-> 0]
  /\ llm = [g \in Ids |-> "none"]
  /\ llmArgs = [g \in Ids |-> NoArgs]
  /\ outbound = << >>
  /\ issued = [s \in Ids |-> 0]
  /\ utterance = [g \in Ids |-> NoUtterance]
  /\ finalCid = [g \in Ids |-> ""]
  /\ endedBy = [g \in Ids |-> ""]
  /\ arrival = [g \in Ids |-> << >>]
  /\ waited = [g \in Ids |-> FALSE]
  /\ frame = NoFrame

\* --------------------------------------------- session loop: reading frames
CanRead == pc = "read" /\ nframes < MaxFrames

\* Line 86-90: conn.ReadMessage fails; the handler returns and the deferred
\* conn.Close() of line 82 runs.
ReadError ==
  /\ pc = "read"
  /\ pc' = "closed"
  /\ connOpen' = FALSE
  /\ frame' = [NoFrame EXCEPT !.kind = "error"]
  /\ UNCHANGED <<message, nframes, turn, userTranscript, stopChan, userMessage,
                 botTextForClient, botTextForTTS, deepgramConn>>
  /\ UNCHANGED <<wireVars, sttVars, aggVars, stopVars, llmVars, outbound,
                 issued, utterance, finalCid, endedBy,
                 arrival, waited>>

\* An unparsable frame that ends the handler instead of being skipped.
ReadMalformedReturns ==
  /\ CanRead
  /\ nframes' = nframes + 1
  /\ frame' = [NoFrame EXCEPT !.kind = "malformed"]
  /\ pc' = "closed"
  /\ connOpen' = FALSE
  /\ UNCHANGED <<message, turn, userTranscript, stopChan, userMessage,
                 botTextForClient, botTextForTTS, deepgramConn>>
  /\ UNCHANGED <<wireVars, sttVars, aggVars, stopVars, llmVars, outbound,
                 issued, utterance, finalCid, endedBy,
                 arrival, waited>>

\* Lines 92-97: a text frame that does not unmarshal is logged and skipped.
ReadMalformed ==
  /\ CanRead
  /\ nframes' = nframes + 1
  /\ frame' = [NoFrame EXCEPT !.kind = "malformed"]
  /\ UNCHANGED <<pc, message, turn, userTranscript, stopChan, userMessage,
                 botTextForClient, botTextForTTS, deepgramConn, connOpen>>
  /\ UNCHANGED <<wireVars, sttVars, aggVars, stopVars, llmVars, outbound,
                 issued, utterance, finalCid, endedBy,
                 arrival, waited>>

\* Reconnection with a transcript channel of its own instead of the Turn's.
ReconnectOwnChannel(ok) ==
  NewDeepgramConnection(ok, 0, stopChan, turn, "reconnect")

\* Reconnection with a stop channel of its own instead of the Turn's.
ReconnectOwnStop(ok) ==
  NewDeepgramConnection(ok, userTranscript, 0, turn, "reconnect")

\* Line 135: the reconnection attaches the new stream to the current Turn's
\* transcript and stop channels.
Reconnect(ok) ==
  NewDeepgramConnection(ok, userTranscript, stopChan, turn, "reconnect")

\* Reconnection that does not write the chunk again.
RetryChunkLost(chunk) == received

\* Line 139: the chunk is written again, to the stream just opened.
RetryChunk(chunk) == [received EXCEPT ![nstreams + 1] = Append(@, chunk)]

\* Reconnection that only logs a failed retried write.
AfterReconnectLenient(ok, w2) == IF ok THEN "read" ELSE "fatal"

\* Lines 136-144: where the loop is after the reconnection: log.Fatal when the
\* open or the retried write failed, else on to the next frame.
AfterReconnect(ok, w2) == IF ok /\ w2 = "ok" THEN "read" ELSE "fatal"

\* Lines 128-149: a binary frame.  w1, ok, w2 are the outcomes of the first
\* write, of the reconnection and of the retried write.  A write on NoConn
\* (line 126 ignores the error of the open) either panics or returns an error,
\* depending on the connection type of package api.  A panic unwinds the
\* handler through the deferred conn.Close() of line 82.
HandleBinary(w1, ok, w2) ==
  /\ CanRead
  /\ nframes' = nframes + 1
  /\ w1 = "ok" => deepgramConn # NoConn
  /\ w1 = "panic" => deepgramConn = NoConn
  /\ LET chunk == nframes + 1 IN
     CASE w1 = "ok" ->
            /\ received' = [received EXCEPT ![deepgramConn] = Append(@, chunk)]
            /\ frame' = [NoFrame EXCEPT !.kind = "binary", !.w1 = "ok"]
            /\ UNCHANGED <<pc, deepgramConn, wireVars, lsn, connOpen>>
       [] w1 = "panic" ->
            /\ pc' = "panic"
            /\ connOpen' = FALSE
            /\ frame' = [NoFrame EXCEPT !.kind = "binary", !.w1 = "panic"]
            /\ UNCHANGED <<received, deepgramConn, wireVars, lsn>>
       [] w1 = "err" ->
            /\ Reconnect(ok)
            /\ frame' = [NoFrame EXCEPT !.kind = "binary", !.w1 = "err",
                           !.openOk = ok, !.w2 = IF ok THEN w2 ELSE ""]
            /\ received' = IF ok /\ w2 = "ok" THEN RetryChunk(chunk) ELSE received
            /\ pc' = AfterReconnect(ok, w2)
            /\ UNCHANGED connOpen
  /\ UNCHANGED <<message, turn, userTranscript, stopChan, userMessage,
                 botTextForClient, botTextForTTS>>
  /\ UNCHANGED <<finalized, emitted, forwarded, mark>>
  /\ UNCHANGED <<aggVars, stopVars, llmVars, outbound, issued, utterance, finalCid, endedBy,
                 arrival, waited>>

\* An LLM call that is not given the text of the message.
AskLlamaNoText(cid, text) ==
  /\ llm' = [llm EXCEPT ![botTextForClient] = "run"]
  /\ llmArgs' = [llmArgs EXCEPT ![botTextForClient] =
                   [cid |-> cid, text |-> << >>,
                    client |-> botTextForClient, tts |-> botTextForTTS]]

\* Line 120: go api.AskLlama(cid, text, botTextForClient, botTextForTTS).
\* The call is wired to the relay channels current at that moment.
AskLlama(cid, text) ==
  /\ llm' = [llm EXCEPT ![botTextForClient] = "run"]
  /\ llmArgs' = [llmArgs EXCEPT ![botTextForClient] =
                   [cid |-> cid, text |-> text,
                    client |-> botTextForClient, tts |-> botTextForTTS]]

\* A rewiring that keeps the bot-text channels of the Turn it replaces.
RewireKeepsRelays(ok, tasks) ==
  /\ turn' = turn + 1
  /\ userTranscript' = turn + 1
  /\ stopChan' = turn + 1
  /\ userMessage' = turn + 1
  /\ UNCHANGED <<botTextForClient, botTextForTTS>>
  /\ agg' = [tasks EXCEPT ![turn + 1] = "run"]
  /\ NewDeepgramConnection(ok, turn + 1, turn + 1, turn + 1, "rewire")

\* Lines 123-126: new transcript and stop channels, makeTurnChannels (new
\* userMessage and bot-text channels, new aggregator and relays), new STT
\* stream.  The error of the open is not looked at.  tasks is the state of
\* the aggregators before the new one is started.
Rewire(ok, tasks) ==
  /\ turn' = turn + 1
  /\ userTranscript' = turn + 1
  /\ stopChan' = turn + 1
  /\ userMessage' = turn + 1
  /\ botTextForClient' = turn + 1
  /\ botTextForTTS' = turn + 1
  /\ agg' = [tasks EXCEPT ![turn + 1] = "run"]
  /\ NewDeepgramConnection(ok, turn + 1, turn + 1, turn + 1, "rewire")

\* Lines 114-126 for a message with text `text`: rejected when the
\* conversation id is empty, else LLM call and rewiring.
Respond(cid, text, ok, by, tasks) ==
  IF cid = ""
  THEN /\ pc' = "read"
       /\ agg' = tasks
       /\ UNCHANGED <<turn, userTranscript, stopChan, userMessage, botTextForClient,
                      botTextForTTS, deepgramConn, wireVars, lsn, llmVars, endedBy>>
  ELSE /\ pc' = "read"
       /\ AskLlama(cid, text)
       /\ Rewire(ok, tasks)
       /\ endedBy' = [endedBy EXCEPT ![turn] = by]

\* Lines 92-97, 114-126: a text frame whose type is not "audioEnd".
ReadText(cid, text, ok) ==
  /\ CanRead
  /\ nframes' = nframes + 1
  /\ frame' = [NoFrame EXCEPT !.kind = "text", !.type = "text", !.cid = cid,
                 !.text = text]
  /\ Respond(cid, text, ok, "text", agg)
  /\ UNCHANGED <<message, connOpen, received, finalized, emitted, forwarded, mark,
                 buf, stopVars, outbound, issued, utterance, finalCid, arrival, waited>>

\* An "audioEnd" handler that sends no Finalize directive.
WriteFinalizeSkipped(fw) == finalized

\* Lines 102-103: the Finalize directive is written to the current STT stream;
\* it is on the stream when the write succeeded.
WriteFinalize(fw) ==
  IF fw = "ok" THEN [finalized EXCEPT ![deepgramConn] = TRUE] ELSE finalized

\* Lines 98-104: an "audioEnd" frame: the Finalize directive is written to the
\* current STT stream (error ignored), then the loop goes to send the stop
\* signal.  fw is the outcome of the write, as in HandleBinary: a panic (line
\* 103 on NoConn) ends the handler and closes the client connection.
ReadAudioEnd(cid, fw) ==
  /\ CanRead
  /\ nframes' = nframes + 1
  /\ fw = "ok" => deepgramConn # NoConn
  /\ fw = "panic" => deepgramConn = NoConn
  /\ frame' = [NoFrame EXCEPT !.kind = "text", !.type = "audioEnd", !.cid = cid,
                 !.w1 = fw]
  /\ finalized' = WriteFinalize(fw)
  /\ pc' = IF fw = "panic" THEN "panic" ELSE "stop"
  /\ connOpen' = IF fw = "panic" THEN FALSE ELSE connOpen
  /\ message' = [type |-> "audioEnd", cid |-> cid, text |-> << >>]
  /\ UNCHANGED <<turn, userTranscript, stopChan, userMessage, botTextForClient,
                 botTextForTTS, deepgramConn>>
  /\ UNCHANGED <<wireVars, received, emitted, forwarded, mark, lsn>>
  /\ UNCHANGED <<aggVars, stopVars, llmVars, outbound, issued, utterance, finalCid, endedBy,
                 arrival, waited>>

\* Receivers of the stop channel g: the listeners watching it and the
\* aggregator made with it.
Listeners(g) == {s \in 1..nstreams : sStop[s] = g /\ lsn[s] = "run"}

\* Lines 105-106: stopChan <- true hands the signal to one receiver, then the
\* channel is closed.  r = 0: the aggregator takes the signal; r > 0: the
\* listener of stream r takes it.
SendStop(r) ==
  /\ pc = "stop"
  /\ ~stopClosed[stopChan]
  /\ IF r = 0 THEN agg[stopChan] = "run" ELSE r \in Listeners(stopChan)
  /\ agg' = IF r = 0 THEN [agg EXCEPT ![stopChan] = "final"] ELSE agg
  /\ lsn' = IF r # 0 THEN [lsn EXCEPT ![r] = "stopped"] ELSE lsn
  /\ stopSent' = [stopSent EXCEPT ![stopChan] = @ + 1]
  /\ stopClosed' = [stopClosed EXCEPT ![stopChan] = TRUE]
  /\ mark' = [s \in Ids |-> IF s <= nstreams /\ sTranscript[s] = stopChan
                            THEN emitted[s] ELSE mark[s]]
  /\ issued' = [s \in Ids |-> IF s <= nstreams /\ sTurn[s] = turn
                              THEN emitted[s] ELSE issued[s]]
  /\ pc' = "recv"
  /\ UNCHANGED <<message, nframes, turn, userTranscript, stopChan, userMessage,
                 botTextForClient, botTextForTTS, deepgramConn, connOpen>>
  /\ UNCHANGED <<wireVars, received, finalized, emitted, forwarded, buf>>
  /\ UNCHANGED <<llmVars, outbound, utterance, finalCid, endedBy, frame, arrival,
                 waited>>

\* Line 105 on a stop channel that line 106 already closed: a send on a closed
\* channel panics.  The panic unwinds the handler: the deferred conn.Close()
\* of line 82 closes the client connection, and the tasks run on.
SendStopClosed ==
  /\ pc = "stop"
  /\ stopClosed[stopChan]
  /\ pc' = "panic"
  /\ connOpen' = FALSE
  /\ UNCHANGED <<message, nframes, turn, userTranscript, stopChan, userMessage,
                 botTextForClient, botTextForTTS, deepgramConn>>
  /\ UNCHANGED <<wireVars, sttVars, aggVars, stopVars, llmVars, outbound, histVars>>


\* ------------------------------------------------------ the Outbound Sink
\* A relay that is handed the client connection itself.
HandleConnToTextRelay(task) ==
  IF task \in {"WriteToWebsocket", "SendTextToClient"} THEN "conn" ELSE "writeChan"

\* Lines 50, 53, 58, 71: what a task is given to reach the client: the
\* connection for the writer task, the write channel for every relay.
Handle(task) == IF task = "WriteToWebsocket" THEN "conn" ELSE "writeChan"

\* The task that performs the transport write of a packet submitted by `task`:
\* the writer task for what comes over the write channel.
WrittenBy(task) == IF Handle(task) = "conn" THEN task ELSE "WriteToWebsocket"

\* utils.WriteToWebsocket: the single writer appends every submitted packet to
\* the client connection; nothing reaches the client once it is closed.
Submit(packet) == IF connOpen THEN Append(outbound, packet) ELSE outbound

\* ----------------------------------------------- STT stream and its listener
\* The STT service emits a transcript fragment for audio it was sent (at most
\* one per chunk), read by the stream's listener.
Emit(s) ==
  /\ Alive
  /\ s \in 1..nstreams
  /\ lsn[s] = "run"
  /\ emitted[s] < Len(received[s])
  /\ emitted' = [emitted EXCEPT ![s] = @ + 1]
  /\ UNCHANGED <<sessVars, wireVars, received, finalized, forwarded, mark, lsn>>
  /\ UNCHANGED <<aggVars, stopVars, llmVars, outbound, histVars>>

\* The aggregator fed by transcript channel g still takes fragments.
Accepting(g) == g \in Ids /\ agg[g] \in {"run", "final"}

\* A running listener hands the next fragment over the transcript channel to
\* the aggregator (api.SendTranscriptToClient), which appends it to its buffer
\* and submits it to the Outbound Sink as a user message.  A listener that
\* has stopped hands over nothing more.
Forward(s) ==
  /\ Alive
  /\ s \in 1..nstreams
  /\ lsn[s] = "run"
  /\ forwarded[s] < emitted[s]
  /\ Accepting(sTranscript[s])
  /\ forwarded' = [forwarded EXCEPT ![s] = @ + 1]
  /\ buf' = [buf EXCEPT ![sTranscript[s]] = Append(@, Frag(s, forwarded[s] + 1))]
  /\ outbound' = Submit(<<sTranscript[s], "user", WrittenBy("SendTranscriptToClient")>>)
  /\ arrival' = [arrival EXCEPT ![sTranscript[s]] = Append(@, Frag(s, forwarded[s] + 1))]
  /\ waited' = [waited EXCEPT ![sTranscript[s]] = @ \/ agg[sTranscript[s]] = "final"]
  /\ UNCHANGED <<sessVars, wireVars, received, finalized, emitted, mark, lsn>>
  /\ UNCHANGED <<agg, stopVars, llmVars, issued, utterance, finalCid, endedBy, frame>>

\* A listener that did not get the stop signal itself sees its stop channel
\* closed and stops.
ListenerStop(s) ==
  /\ Alive
  /\ s \in 1..nstreams
  /\ lsn[s] = "run"
  /\ sStop[s] \in Ids
  /\ stopClosed[sStop[s]]
  /\ lsn' = [lsn EXCEPT ![s] = "stopped"]
  /\ UNCHANGED <<sessVars, wireVars, received, finalized, emitted, forwarded, mark>>
  /\ UNCHANGED <<aggVars, stopVars, llmVars, outbound, histVars>>

\* An aggregator that did not get the stop signal itself sees its stop channel
\* closed and starts finalizing.
AggregatorStop(g) ==
  /\ Alive
  /\ agg[g] = "run"
  /\ stopClosed[g]
  /\ agg' = [agg EXCEPT ![g] = "final"]
  /\ UNCHANGED <<sessVars, wireVars, sttVars, buf, stopVars, llmVars, outbound,
                 histVars>>

\* finalize() is a barrier: every fragment that the streams feeding the
\* aggregator had emitted when the stop signal was given is in the buffer.
BarrierResolved(g) ==
  \A s \in 1..nstreams : sTranscript[s] = g => forwarded[s] >= mark[s]

\* Lines 110-126: the loop receives the full transcript from the aggregator
\* of the current userMessage channel (finalize() returns the accumulated
\* text and clears the buffer; the aggregator then ends), stores it in
\* message.Text and goes on as for any text message.
RecvUtterance(ok) ==
  /\ pc = "recv"
  /\ agg[userMessage] = "final"
  /\ BarrierResolved(userMessage)
  /\ utterance' = [utterance EXCEPT ![turn] = buf[userMessage]]
  /\ finalCid' = [finalCid EXCEPT ![turn] = message.cid]
  /\ message' = [message EXCEPT !.text = buf[userMessage]]
  /\ Respond(message.cid, buf[userMessage], ok, "audioEnd",
             [agg EXCEPT ![userMessage] = "done"])
  /\ buf' = [buf EXCEPT ![userMessage] = << >>]
  /\ UNCHANGED <<nframes, connOpen, received, finalized, emitted, forwarded, mark,
                 stopVars, outbound, issued, frame, arrival, waited>>

\* --------------------------------------------------- LLM call and its relays
\* api.AskLlama produces the reply text; the text relay submits it.
BotText(g) ==
  /\ Alive
  /\ llm[g] = "run"
  /\ llm' = [llm EXCEPT ![g] = "text"]
  /\ outbound' = Submit(<<g, "botText", WrittenBy("SendTextToClient")>>)
  /\ UNCHANGED <<sessVars, wireVars, sttVars, aggVars, stopVars, llmArgs, histVars>>

\* The response stream completes: the audio relay submits the synthesized
\* speech as one packet and the relays close.
BotAudio(g) ==
  /\ Alive
  /\ llm[g] = "text"
  /\ llm' = [llm EXCEPT ![g] = "done"]
  /\ outbound' = Submit(<<g, "botAudio", WrittenBy("SendAudioToClient")>>)
  /\ UNCHANGED <<sessVars, wireVars, sttVars, aggVars, stopVars, llmArgs, histVars>>

\* ------------------------------------------------------------------- Next
Next ==
  \/ ReadError
  \/ ReadMalformed
  \/ \E w1 \in {"ok", "err", "panic"}, ok \in {TRUE, FALSE}, w2 \in {"ok", "err"} :
       HandleBinary(w1, ok, w2)
  \/ \E cid \in ConvIds, text \in Texts, ok \in {TRUE, FALSE} : ReadText(cid, text, ok)
  \/ \E cid \in ConvIds, fw \in {"ok", "err", "panic"} : ReadAudioEnd(cid, fw)
  \/ \E r \in {0} \cup Ids : SendStop(r)
  \/ SendStopClosed
  \/ \E ok \in {TRUE, FALSE} : RecvUtterance(ok)
  \/ \E s \in Ids : Emit(s)
  \/ \E s \in Ids : Forward(s)
  \/ \E s \in Ids : ListenerStop(s)
  \/ \E g \in Ids : AggregatorStop(g)
  \/ \E g \in Ids : BotText(g)
  \/ \E g \in Ids : BotAudio(g)

Spec == Init /\ [][Next]_vars

\* The session loop runs on when it is not blocked (lines 105-110), and the
\* STT listeners and the aggregators are scheduled fairly.
FairSpec ==
  /\ Spec
  /\ WF_vars(\E r \in {0} \cup Ids : SendStop(r))
  /\ WF_vars(SendStopClosed)
  /\ WF_vars(\E ok \in {TRUE, FALSE} : RecvUtterance(ok))
  /\ WF_vars(\E s \in Ids : Forward(s))
  /\ WF_vars(\E s \in Ids : ListenerStop(s))
  /\ WF_vars(\E g \in Ids : AggregatorStop(g))


\* ================================================================== claims
InSeq(x, q) == \E i \in 1..Len(q) : q[i] = x
Count(x, q) == Cardinality({i \in 1..Len(q) : q[i] = x})
Pos(x, q) == CHOOSE i \in 1..Len(q) : q[i] = x
PacketsOf(q, g) == SelectSeq(q, LAMBDA pkt : pkt[1] = g)

\* Number of deliveries of chunk c, over all STT streams.
RECURSIVE Deliveries(_, _)
Deliveries(c, n) ==
  IF n = 0 THEN 0 ELSE Count(c, received[n]) + Deliveries(c, n - 1)

\* The step reads a text frame whose conversationId is empty.
ReadsEmptyId ==
  nframes' = nframes + 1 /\ frame'.kind = "text" /\ frame'.cid = ""

\* C1: handling a text frame with an empty conversationId, of whatever type,
\* makes no Turn transition (no Finalize directive, no stop signal, no close of
\* the stop channel, no rewiring) and no LLM call, and the loop is back at
\* reading the next frame.
C1_EmptyIdNoTransition ==
  [][ReadsEmptyId =>
        /\ pc' = "read"
        /\ UNCHANGED <<turn, userTranscript, stopChan, userMessage,
                       botTextForClient, botTextForTTS, deepgramConn>>
        /\ UNCHANGED <<finalized, stopClosed, stopSent, agg, llm>>]_vars

\* The Turn g got its utterance from the aggregator.
Finalized(g) == utterance[g] # NoUtterance

C3_ReplyDrainsFirst ==
  /\ \A s \in 1..nstreams :
       (sTurn[s] >= 2 /\ received[s] # << >>) => llm[sTurn[s] - 1] = "done"
  /\ \A i, j \in 1..Len(outbound) :
       (i < j /\ outbound[i][1] # outbound[j][1]) => outbound[i][1] < outbound[j][1]

\* C4: no chunk is delivered twice; a chunk whose first write failed and whose
\* reconnection succeeded is delivered once, to the reconnected stream; and
\* every chunk written after that goes to the most recently opened stream,
\* which stays the current one.
C4_ExactlyOnce ==
  /\ \A c \in 1..nframes : Deliveries(c, nstreams) <= 1
  /\ (frame.kind = "binary" /\ frame.w1 = "err" /\ frame.openOk /\ frame.w2 = "ok")
       => /\ Deliveries(nframes, nstreams) = 1
          /\ sBy[deepgramConn] = "reconnect"
          /\ received[deepgramConn] = <<nframes>>
  /\ (frame.kind = "binary" /\ frame.w1 = "ok")
       => /\ deepgramConn = nstreams
          /\ received[deepgramConn][Len(received[deepgramConn])] = nframes

\* C4 witness: a frame was forwarded to a reconnected stream after the chunk
\* that caused the reconnection.
C4_Witness ==
  /\ deepgramConn # NoConn
  /\ sBy[deepgramConn] = "reconnect"
  /\ Len(received[deepgramConn]) >= 2

\* The aggregator of Turn g can still take transcript input.
TurnActive(g) == Accepting(g)

\* C5: at most one Turn of the session is active.
C5_OneActiveTurn == Cardinality({g \in Ids : TurnActive(g)}) <= 1

\* Turn g was replaced by a new Turn and its LLM response has completed.
Closed(g) == g < turn /\ llm[g] = "done"

\* C6: no packet of a Closed Turn is submitted to the Outbound Sink.
C6_ClosedTurnSilent ==
  [][\A g \in Ids : Closed(g) => PacketsOf(outbound', g) = PacketsOf(outbound, g)]_vars

\* C7: an empty utterance finalized by an "audioEnd" (with a conversationId)
\* starts no LLM call; the Turn is replaced by a new one all the same.
C7_EmptyUtteranceNoCall ==
  \A g \in Ids : (Finalized(g) /\ utterance[g] = << >> /\ finalCid[g] # "") =>
    /\ llm[g] = "none"
    /\ pc = "read" => turn > g

\* C8: the loop never goes on with a Turn whose STT stream failed to open.
C8_OpenFailureFatal ==
  pc \in {"read", "stop", "recv"} => deepgramConn # NoConn

\* C9: audio is never written to an STT stream whose Turn was given the stop
\* signal.
C9_NoAudioAfterStop ==
  [][\A s \in Ids :
       (s <= nstreams' /\ received'[s] # received[s]) => ~stopClosed[sStop'[s]]]_vars

\* C10: a frame whose write failed makes exactly one reconnection attempt, and
\* the session is dead when the attempt or the retried write failed.
C10_OneReconnect ==
  [][(nframes' = nframes + 1 /\ frame'.kind = "binary")
       => /\ attempts' = attempts + (IF frame'.w1 = "err" THEN 1 ELSE 0)
          /\ (frame'.w1 = "err" /\ (~frame'.openOk \/ frame'.w2 = "err"))
               => pc' = "fatal"]_vars

\* C10 witness: the retried write failed and the session is dead.
C10_Witness ==
  frame.kind = "binary" /\ frame.w1 = "err" /\ frame.openOk /\ frame.w2 = "err"
    /\ pc = "fatal"

\* C11: every packet on the client connection was written by the one writer
\* task, whatever Turn and relay it comes from.
C11_SingleWriter ==
  \A i \in 1..Len(outbound) : outbound[i][3] = "WriteToWebsocket"

\* C11 witness: packets of two Turns, from a text relay and an audio relay,
\* are on the connection.
C11_Witness ==
  \E i, j \in 1..Len(outbound) :
    /\ outbound[i][1] # outbound[j][1]
    /\ outbound[i][2] = "botText" /\ outbound[j][2] = "botAudio"

\* The step reads a direct text frame with a conversationId.
ReadsDirectText ==
  /\ nframes' = nframes + 1
  /\ frame'.kind = "text" /\ frame'.type = "text" /\ frame'.cid # ""

\* C12: a direct text frame starts exactly one LLM call, with the text and
\* the conversationId of the message, on the relay channels of the current
\* Turn; no Finalize directive is written, no stop signal is sent, no stop
\* channel is closed and nothing is received from the aggregator.
C12_DirectText ==
  [][ReadsDirectText =>
        /\ llm[botTextForClient] = "none"
        /\ llm'[botTextForClient] = "run"
        /\ \A g \in Ids : g # botTextForClient => llm'[g] = llm[g]
        /\ llmArgs'[botTextForClient].text = frame'.text
        /\ llmArgs'[botTextForClient].cid = frame'.cid
        /\ frame'.text \in Texts
        /\ UNCHANGED <<finalized, stopClosed, stopSent, utterance, buf>>
        /\ \A g \in 1..turn : agg'[g] = agg[g]
        /\ pc' = "read"]_vars

\* C12 witness: a direct text frame was handled and its LLM call is running
\* while the Turn it ended was never finalized.
C12_Witness ==
  /\ frame.kind = "text" /\ frame.type = "text" /\ frame.cid # ""
  /\ llm[turn - 1] = "run" /\ llmArgs[turn - 1].text = frame.text
  /\ ~Finalized(turn - 1)

\* C13: an unparsable text frame changes nothing of the session: same Turn,
\* same STT stream, same channels and tasks, no stop signal, no LLM call; the
\* loop reads the next frame.
C13_MalformedDropped ==
  [][(nframes' = nframes + 1 /\ frame'.kind = "malformed") =>
        /\ pc' = "read"
        /\ UNCHANGED <<message, turn, userTranscript, stopChan, userMessage,
                       botTextForClient, botTextForTTS, deepgramConn, connOpen>>
        /\ UNCHANGED <<wireVars, sttVars, aggVars, stopVars, llmVars, outbound>>]_vars

\* C13 witness: an unparsable frame was handled in a Turn that had taken
\* audio, and the loop is reading again.
C13_Witness ==
  /\ frame.kind = "malformed" /\ pc = "read"
  /\ deepgramConn # NoConn /\ received[deepgramConn] # << >>

\* C14: when the session has ended on a read failure, the connection is
\* closed and every task of the session that is still running has been
\* cancelled: the stop channel it blocks on is closed.
C14_TeardownCancelsTasks ==
  pc = "closed" =>
    /\ ~connOpen
    /\ \A g \in Ids : agg[g] = "run" => stopClosed[g]
    /\ \A s \in 1..nstreams : lsn[s] = "run" => stopClosed[sStop[s]]

\* C15: the steps of an "audioEnd" come in order.  The stop signal is given
\* only after the Finalize directive was written to the Turn's stream, and the
\* stop channel is closed with it; the utterance is received only after the
\* stop signal and the close; the LLM call of an "audioEnd" starts only with
\* the utterance received, and is given that utterance.
C15_AudioEndOrder ==
  [][/\ (stopSent' # stopSent) =>
          /\ pc = "stop" /\ frame.type = "audioEnd"
          /\ frame.w1 = "ok" => finalized[deepgramConn]
          /\ stopSent'[stopChan] = 1 /\ stopClosed'[stopChan]
          /\ ~Finalized(turn) /\ llm[turn] = "none"
     /\ (utterance' # utterance) =>
          /\ pc = "recv"
          /\ stopSent[stopChan] = 1 /\ stopClosed[stopChan]
          /\ llm[turn] = "none"
     /\ (llm' # llm /\ frame'.type = "audioEnd") =>
          /\ llm'[turn] \in {"none", "run"}
          /\ llm'[turn] = "run" =>
               /\ utterance'[turn] # NoUtterance
               /\ llmArgs'[turn].text = utterance'[turn]
               /\ stopClosed[turn]]_vars

\* C15 witness: an "audioEnd" went through all its steps: Finalize written,
\* stop given, a non-empty utterance received and handed to the LLM call.
C15_Witness ==
  \E g \in 1..turn :
    /\ endedBy[g] = "audioEnd" /\ llm[g] # "none"
    /\ Len(utterance[g]) >= 1 /\ llmArgs[g].text = utterance[g]
    /\ \E s \in 1..nstreams : sTurn[s] = g /\ finalized[s]

\* C16: with the loop, the STT listeners and the aggregators scheduled fairly,
\* a loop that has taken an "audioEnd" and stands before the send on the stop
\* channel eventually is back at reading the next frame.
C16_AudioEndReturns == (pc = "stop") ~> (pc = "read")

\* C17: no stop channel is given more than one stop signal, and the loop never
\* stands before a send on (and close of) a stop channel that is closed.
C17_StopOnce ==
  /\ \A g \in Ids : stopSent[g] <= 1
  /\ ~(pc = "stop" /\ stopClosed[stopChan])

\* The step starts an LLM call.
StartsLLM ==
  \E g \in Ids : llm'[g] = "run" /\ (llm[g] # "run" \/ llmArgs'[g] # llmArgs[g])

\* The channels of the session loop, as a set.
TurnChannels ==
  {userTranscript, stopChan, userMessage, botTextForClient, botTextForTTS}

\* C18: a step that starts an LLM call starts exactly one, on the current
\* bot-text channels (client text and TTS text), which had no LLM call as
\* producer before; in the same step all five channels of the loop are
\* replaced by channels that no Turn, stream or LLM call has had before.
C18_LLMWiring ==
  [][StartsLLM =>
       /\ llm[botTextForClient] = "none" /\ llm[botTextForTTS] = "none"
       /\ llm'[botTextForClient] = "run"
       /\ \A g \in Ids \ {botTextForClient} : llm'[g] = llm[g]
       /\ llmArgs'[botTextForClient].client = botTextForClient
       /\ llmArgs'[botTextForClient].tts = botTextForTTS
       /\ \A c \in TurnChannels : c <= turn
       /\ \A s \in 1..nstreams : sTranscript[s] <= turn /\ sStop[s] <= turn
       /\ \A g \in Ids : g > turn => llm[g] = "none" /\ agg[g] = "none"
       /\ userTranscript' > turn /\ stopChan' > turn /\ userMessage' > turn
       /\ botTextForClient' > turn /\ botTextForTTS' > turn]_vars

\* C18 witness: two LLM calls were started in the session, each on the
\* bot-text channels of its own Turn, and the loop has a third set.
C18_Witness ==
  /\ turn = 3 /\ botTextForClient = 3 /\ botTextForTTS = 3
  /\ llm[1] # "none" /\ llmArgs[1].client = 1 /\ llmArgs[1].tts = 1
  /\ llm[2] # "none" /\ llmArgs[2].client = 2 /\ llmArgs[2].tts = 2

\* C19: handling a binary frame leaves the Turn as it is: the five channels,
\* the aggregators and the LLM calls are unchanged, and a stream opened by the
\* step (reconnection) is attached to the current transcript and stop
\* channels.
C19_BinaryKeepsTurn ==
  [][(nframes' = nframes + 1 /\ frame'.kind = "binary") =>
       /\ UNCHANGED <<turn, userTranscript, stopChan, userMessage,
                      botTextForClient, botTextForTTS>>
       /\ UNCHANGED <<aggVars, stopVars, llmVars, outbound>>
       /\ nstreams' \in {nstreams, nstreams + 1}
       /\ nstreams' = nstreams => UNCHANGED <<sTranscript, sStop, lsn>>
       /\ nstreams' = nstreams + 1 =>
            /\ frame'.w1 = "err"
            /\ deepgramConn' = nstreams'
            /\ sTranscript'[nstreams'] = userTranscript
            /\ sStop'[nstreams'] = stopChan
            /\ \A s \in 1..nstreams :
                 sTranscript'[s] = sTranscript[s] /\ sStop'[s] = sStop[s]]_vars

\* C19 witness: a binary frame was handled on the reconnect path, the new
\* stream took the chunk and the loop is reading again in the same Turn.
C19_Witness ==
  /\ frame.kind = "binary" /\ frame.w1 = "err" /\ pc = "read"
  /\ deepgramConn # NoConn /\ sBy[deepgramConn] = "reconnect"
  /\ sTranscript[deepgramConn] = userTranscript /\ sStop[deepgramConn] = stopChan
  /\ received[deepgramConn] # << >>

====
